---- MODULE Spec2Model ----
(***************************************************************************)
(* Model of the go-to-japan itinerary pipeline: the GoToJapan crew of      *)
(* src/src/go_to_japan/crew.py (ten tasks run by Process.sequential, three *)
(* of them ConditionalTasks gated on the requested services) and the run   *)
(* driver of src/src/go_to_japan/main.py.                                  *)
(***************************************************************************)
EXTENDS Integers, Sequences, FiniteSets, TLC

VARIABLES
    services,     \* crew.inputs['services'] of the run (kickoff(inputs=...))
    idx,          \* position of the sequential process in TaskOrder
    status,       \* per task: where the sequential process stands with it
    context,      \* per task: the upstream entries handed to it, or NotBuilt
    prev_output,  \* shape of the TaskOutput of the task handled last
    gate_input,   \* per conditional task: the TaskOutput its condition got
    driver,       \* position of the run driver (main.run)
    final_docs,   \* number of final itinerary documents written so far
    file,         \* the results log file of write_root_cause (api.py)
    writers,      \* per caller of write_root_cause: where it stands, its locals
    results,      \* api.results: the job registry
    jobs,         \* per job id: the background task of run_job
    last,         \* the last HTTP request handled and its response
    nreq,         \* number of HTTP requests handled so far
    call,         \* the last call of a tool or of a schema, and what it gave
    registry,     \* SourceRegistryTool._registry
    outfiles,     \* per output_file path: what was written to it last
    runs          \* per concurrent kickoff: its position and what it read

\* The state of one kickoff of the crew.
pipevars == <<services, idx, status, context, prev_output, gate_input, driver, final_docs>>

\* The state of the results log and of the callers of write_root_cause.
logvars == <<file, writers>>

\* The state of the HTTP service.
apivars == <<results, jobs, last, nreq>>

\* The state of the tools, the schemas and the output files.
toolvars == <<call, registry, outfiles, runs>>

vars == <<pipevars, logvars, apivars, toolvars>>

\* No results log and no HTTP service beside the run.
LogIdle == file = <<>> /\ writers = <<>>

ApiIdle == results = <<>> /\ jobs = <<>> /\ last = <<>> /\ nreq = 0

ToolIdle == call = <<>> /\ registry = <<>> /\ outfiles = <<>> /\ runs = <<>>

----------------------------------------------------------------------------
(* Task definitions (crew.py, @task methods in declaration order).          *)

\* A plausible slip: daily_activities declared before lodging_specialist.
TaskOrderSwapped ==
    << "profiler_task", "live_news_task", "weather_analyst_task",
       "transport_planner_task", "daily_activities_sequencing_task",
       "lodging_specialist_task", "dining_recommender_task",
       "budget_aggregation_and_variants_task",
       "quality_and_consistency_audit_task", "itinerary_synthesizer_task" >>

\* self.tasks: the @task methods in the order the class declares them.
TaskOrder ==
    << "profiler_task", "live_news_task", "weather_analyst_task",
       "transport_planner_task", "lodging_specialist_task",
       "daily_activities_sequencing_task", "dining_recommender_task",
       "budget_aggregation_and_variants_task",
       "quality_and_consistency_audit_task", "itinerary_synthesizer_task" >>

Tasks == { TaskOrder[i] : i \in 1..Len(TaskOrder) }

\* Position of a task in the sequential order.
Pos(t) == CHOOSE i \in 1..Len(TaskOrder) : TaskOrder[i] = t

\* The tasks built as ConditionalTask.
ConditionalTasks ==
    { "transport_planner_task", "lodging_specialist_task", "dining_recommender_task" }

\* A plausible slip: the final document is taken from the audit task.
TerminalTaskAudit == "quality_and_consistency_audit_task"

\* The task whose output_file is the final itinerary document.
TerminalTask == "itinerary_synthesizer_task"

\* A plausible slip: every task declares every task placed before it.
ContextsAllPrior(t) == { TaskOrder[i] : i \in 1..(Pos(t) - 1) }

\* contexts=[...] of each task definition.
Contexts(t) ==
    CASE t = "profiler_task" -> {}
      [] t = "live_news_task" -> { "profiler_task" }
      [] t = "weather_analyst_task" -> { "profiler_task", "live_news_task" }
      [] t = "transport_planner_task" ->
            { "profiler_task", "live_news_task", "weather_analyst_task" }
      [] t = "lodging_specialist_task" ->
            { "profiler_task", "live_news_task", "weather_analyst_task" }
      [] t = "daily_activities_sequencing_task" ->
            { "profiler_task", "live_news_task", "weather_analyst_task",
              "transport_planner_task", "lodging_specialist_task" }
      [] t = "dining_recommender_task" ->
            { "profiler_task", "live_news_task", "weather_analyst_task",
              "transport_planner_task", "lodging_specialist_task" }
      [] t = "budget_aggregation_and_variants_task" ->
            { "profiler_task", "live_news_task", "weather_analyst_task",
              "transport_planner_task", "lodging_specialist_task",
              "daily_activities_sequencing_task", "dining_recommender_task" }
      [] t = "quality_and_consistency_audit_task" ->
            { "profiler_task", "live_news_task", "weather_analyst_task",
              "transport_planner_task", "lodging_specialist_task",
              "daily_activities_sequencing_task", "dining_recommender_task",
              "budget_aggregation_and_variants_task" }
      [] t = "itinerary_synthesizer_task" ->
            { "profiler_task", "live_news_task", "weather_analyst_task",
              "transport_planner_task", "lodging_specialist_task",
              "daily_activities_sequencing_task", "dining_recommender_task",
              "budget_aggregation_and_variants_task",
              "quality_and_consistency_audit_task" }

----------------------------------------------------------------------------
(* Run inputs and TaskOutput shapes.                                        *)

\* The service names the conditions look for (and one they never look for).
ServiceNames == { "restaurants", "lodging", "accommodation", "transport" }

\* What the conditions can find out about the TaskOutput they are handed:
\*   no_agent   hasattr(output, 'agent') is false
\*   no_crew    hasattr(output.agent, 'crew') is false
\*   crew_none  output.agent.crew is falsy
\*   no_inputs  hasattr(crew, 'inputs') is false
\*   linked     crew.inputs is the run's inputs
OutputShapes == { "no_agent", "no_crew", "crew_none", "no_inputs", "linked" }

NoOutput == "no_output"
\* The context of a task whose context is not assembled yet.
NotBuilt == { "not_built" }

\* crew = output.agent.crew if hasattr(output, 'agent') and
\*        hasattr(output.agent, 'crew') else None
CrewOf(output) ==
    IF output # "no_agent" /\ output # "no_crew"
    THEN (IF output = "crew_none" THEN "None" ELSE output)
    ELSE "None"

\* A plausible slip: the hasattr(crew, 'inputs') test is missing.
CrewHasInputsAnyCrew(crew) == crew # "None"

\* if crew and hasattr(crew, 'inputs')
CrewHasInputs(crew) == crew # "None" /\ crew # "no_inputs"


----------------------------------------------------------------------------
(* Gating predicates (crew.py, "Fonctions condition pour chaque service"). *)

\* A plausible slip: the predicate fails open when the lookup finds no inputs.
has_restaurants_open(output) ==
    LET crew == CrewOf(output) IN
    IF CrewHasInputs(crew) THEN "restaurants" \in services ELSE TRUE

has_restaurants(output) ==
    LET crew == CrewOf(output) IN
    IF CrewHasInputs(crew) THEN "restaurants" \in services ELSE FALSE

has_lodging(output) ==
    LET crew == CrewOf(output) IN
    IF CrewHasInputs(crew) THEN "lodging" \in services ELSE FALSE

has_accommodation(output) ==
    LET crew == CrewOf(output) IN
    IF CrewHasInputs(crew) THEN "accommodation" \in services ELSE FALSE

has_transport(output) ==
    LET crew == CrewOf(output) IN
    IF CrewHasInputs(crew) THEN "transport" \in services ELSE FALSE

\* The predicates as function objects, by name.
Predicates == { "has_restaurants", "has_lodging", "has_accommodation", "has_transport" }

\* bool(f) of a function object.
FnTruthy(f) == f \in Predicates

\* Python's `a or b` on two objects: a when a is truthy, else b.
PyOr(a, b) == IF FnTruthy(a) THEN a ELSE b

\* condition=... of each ConditionalTask.
Condition(t) ==
    CASE t = "transport_planner_task" -> "has_restaurants"
      [] t = "lodging_specialist_task" -> PyOr("has_lodging", "has_accommodation")
      [] t = "dining_recommender_task" -> "has_restaurants"

\* Calling a predicate object on a TaskOutput.
Call(f, output) ==
    CASE f = "has_restaurants" -> has_restaurants(output)
      [] f = "has_lodging" -> has_lodging(output)
      [] f = "has_accommodation" -> has_accommodation(output)
      [] f = "has_transport" -> has_transport(output)

\* A plausible slip: the condition object is tested for truth, never called.
ShouldExecuteTruthy(t, output) == FnTruthy(Condition(t))

\* The gate of a conditional task: its condition called on the previous output.
ShouldExecute(t, output) == Call(Condition(t), output)


----------------------------------------------------------------------------
(* The sequential process over self.tasks, and the run driver.              *)

Statuses == { "PENDING", "ELIGIBLE", "RUNNING", "DONE", "FAILED", "SKIPPED" }

TypeOK ==
    /\ services \in SUBSET ServiceNames
    /\ idx \in 1..(Len(TaskOrder) + 1)
    /\ status \in [Tasks -> Statuses]
    /\ \A t \in Tasks : context[t] \in SUBSET (Tasks \cup NotBuilt)
    /\ prev_output \in OutputShapes \cup {NoOutput}
    /\ gate_input \in [ConditionalTasks -> OutputShapes \cup {NoOutput}]
    /\ driver \in { "start", "kickoff", "except", "raised", "returned" }
    /\ final_docs \in Nat

Init ==
    /\ services \in SUBSET ServiceNames
    /\ idx = 1
    /\ status = [t \in Tasks |-> "PENDING"]
    /\ context = [t \in Tasks |-> NotBuilt]
    /\ prev_output = NoOutput
    /\ gate_input = [t \in ConditionalTasks |-> NoOutput]
    /\ driver = "start"
    /\ final_docs = 0
    /\ LogIdle
    /\ ApiIdle
    /\ ToolIdle

\* The process is inside kickoff and t is the task it has reached.
Reached(t) ==
    /\ driver = "kickoff"
    /\ idx <= Len(TaskOrder)
    /\ t = TaskOrder[idx]

\* A variant that also hands over the empty output of a skipped upstream task.
BuildContextWithSkipped(t) == { u \in Contexts(t) : status[u] \in { "DONE", "SKIPPED" } }

\* The upstream entries handed to task t: the outputs of its declared
\* upstream tasks that produced one.
BuildContext(t) == { u \in Contexts(t) : status[u] = "DONE" }

\* main.run: try: GoToJapan().crew().kickoff(inputs=inputs)
DriverKickoff ==
    /\ driver = "start"
    /\ driver' = "kickoff"
    /\ UNCHANGED <<services, idx, status, context, prev_output, gate_input, final_docs>>
    /\ UNCHANGED <<logvars, apivars, toolvars>>

\* The process reaches task t and finds that it is to be executed: t is a
\* plain Task, or a ConditionalTask whose condition holds of the previous output.
AdmitStage(t) ==
    /\ Reached(t)
    /\ status[t] = "PENDING"
    /\ t \in ConditionalTasks => ShouldExecute(t, prev_output)
    /\ status' = [status EXCEPT ![t] = "ELIGIBLE"]
    /\ gate_input' = IF t \in ConditionalTasks
                     THEN [gate_input EXCEPT ![t] = prev_output]
                     ELSE gate_input
    /\ UNCHANGED <<services, idx, context, prev_output, driver, final_docs>>
    /\ UNCHANGED <<logvars, apivars, toolvars>>

\* A plausible slip: a skipped task is reported like a failed one.
SkipStageRaises(t) ==
    /\ Reached(t)
    /\ status[t] = "PENDING"
    /\ t \in ConditionalTasks
    /\ ~ShouldExecute(t, prev_output)
    /\ status' = [status EXCEPT ![t] = "SKIPPED"]
    /\ gate_input' = [gate_input EXCEPT ![t] = prev_output]
    /\ driver' = "except"
    /\ UNCHANGED <<services, idx, context, prev_output, final_docs>>
    /\ UNCHANGED <<logvars, apivars, toolvars>>

\* The condition of ConditionalTask t is false of the previous output: t is
\* skipped, its (empty) output becomes the previous output, the process moves on.
SkipStage(t) ==
    /\ Reached(t)
    /\ status[t] = "PENDING"
    /\ t \in ConditionalTasks
    /\ ~ShouldExecute(t, prev_output)
    /\ status' = [status EXCEPT ![t] = "SKIPPED"]
    /\ gate_input' = [gate_input EXCEPT ![t] = prev_output]
    /\ idx' = idx + 1
    /\ prev_output' \in OutputShapes
    /\ UNCHANGED <<services, context, driver, final_docs>>
    /\ UNCHANGED <<logvars, apivars, toolvars>>

\* The context of task t is assembled and its agent starts on it.
StartStage(t) ==
    /\ Reached(t)
    /\ status[t] = "ELIGIBLE"
    /\ status' = [status EXCEPT ![t] = "RUNNING"]
    /\ context' = [context EXCEPT ![t] = BuildContext(t)]
    /\ UNCHANGED <<services, idx, prev_output, gate_input, driver, final_docs>>
    /\ UNCHANGED <<logvars, apivars, toolvars>>

\* Task t returns an output that passes its output_json / output_pydantic
\* model; the output is written to its output_file.
FinishStage(t) ==
    /\ Reached(t)
    /\ status[t] = "RUNNING"
    /\ status' = [status EXCEPT ![t] = "DONE"]
    /\ idx' = idx + 1
    /\ prev_output' \in OutputShapes
    /\ final_docs' = IF t = TerminalTask THEN final_docs + 1 ELSE final_docs
    /\ UNCHANGED <<services, context, gate_input, driver>>
    /\ UNCHANGED <<logvars, apivars, toolvars>>

\* A plausible slip: the error of a task is swallowed and the process goes on.
FailStageContinues(t) ==
    /\ Reached(t)
    /\ status[t] = "RUNNING"
    /\ status' = [status EXCEPT ![t] = "FAILED"]
    /\ idx' = idx + 1
    /\ prev_output' \in OutputShapes
    /\ UNCHANGED <<services, context, gate_input, driver, final_docs>>
    /\ UNCHANGED <<logvars, apivars, toolvars>>

\* A plausible slip: a failed task is put back to be tried again.
FailStageRetries(t) ==
    /\ Reached(t)
    /\ status[t] = "RUNNING"
    /\ status' = [status EXCEPT ![t] = "PENDING"]
    /\ UNCHANGED <<services, idx, context, prev_output, gate_input, driver, final_docs>>
    /\ UNCHANGED <<logvars, apivars, toolvars>>

\* Task t raises (its model rejects the output, or the agent or a tool
\* errors): kickoff raises into the except clause of main.run.
FailStage(t) ==
    /\ Reached(t)
    /\ status[t] = "RUNNING"
    /\ status' = [status EXCEPT ![t] = "FAILED"]
    /\ driver' = "except"
    /\ UNCHANGED <<services, idx, context, prev_output, gate_input, final_docs>>
    /\ UNCHANGED <<logvars, apivars, toolvars>>

\* main.run: except Exception as e: raise Exception(...)
DriverExcept ==
    /\ driver = "except"
    /\ driver' = "raised"
    /\ UNCHANGED <<services, idx, status, context, prev_output, gate_input, final_docs>>
    /\ UNCHANGED <<logvars, apivars, toolvars>>

\* kickoff returns after the last task and main.run returns.
DriverReturn ==
    /\ driver = "kickoff"
    /\ idx > Len(TaskOrder)
    /\ driver' = "returned"
    /\ UNCHANGED <<services, idx, status, context, prev_output, gate_input, final_docs>>
    /\ UNCHANGED <<logvars, apivars, toolvars>>

Next ==
    \/ DriverKickoff
    \/ \E t \in Tasks : AdmitStage(t)
    \/ \E t \in Tasks : SkipStage(t)
    \/ \E t \in Tasks : StartStage(t)
    \/ \E t \in Tasks : FinishStage(t)
    \/ \E t \in Tasks : FailStage(t)
    \/ DriverExcept
    \/ DriverReturn

Spec == Init /\ [][Next]_vars

\* The sequential process is one thread that keeps going until kickoff
\* returns or raises.
FairSpec == Spec /\ WF_vars(Next)


----------------------------------------------------------------------------
(* Vocabulary of the properties.                                            *)

AnyFailed == \E t \in Tasks : status[t] = "FAILED"

RunOver == driver \in { "raised", "returned" }

\* The context of task t has been assembled.
ContextBuilt(t) == context[t] # NotBuilt

\* The condition of conditional task t has been evaluated.
GateEvaluated(t) == gate_input[t] # NoOutput

\* profile -> {live_news, weather} -> {transport, lodging} -> daily_activities
\*   -> dining -> budget_aggregation -> quality_audit -> itinerary_synthesis
Chain ==
    << { "profiler_task" },
       { "live_news_task", "weather_analyst_task" },
       { "transport_planner_task", "lodging_specialist_task" },
       { "daily_activities_sequencing_task" },
       { "dining_recommender_task" },
       { "budget_aggregation_and_variants_task" },
       { "quality_and_consistency_audit_task" },
       { "itinerary_synthesizer_task" } >>

ChainGroup(t) == CHOOSE g \in 1..Len(Chain) : t \in Chain[g]

\* Every stage of a group placed before the group of t.
ChainUpstream(t) == UNION { Chain[g] : g \in 1..(ChainGroup(t) - 1) }

NoGatedService == services \cap { "restaurants", "lodging", "accommodation" } = {}

NoLodgingService == services \cap { "lodging", "accommodation" } = {}

----------------------------------------------------------------------------
(* C1 *)

\* C1: a stage leaves PENDING to be executed (and its context is assembled)
\* only after every stage of its declared upstream list is DONE or SKIPPED;
\* the sequential order is a topological order of the declared lists.
C1_UpstreamTerminalBeforeStart ==
    /\ \A t \in Tasks : \A u \in Contexts(t) : Pos(u) < Pos(t)
    /\ \A t \in Tasks :
          (status[t] \in { "ELIGIBLE", "RUNNING", "DONE", "FAILED" } \/ ContextBuilt(t))
             => \A u \in Contexts(t) : status[u] \in { "DONE", "SKIPPED" }

C1_Witness ==
    /\ status["daily_activities_sequencing_task"] = "RUNNING"
    /\ status["transport_planner_task"] = "SKIPPED"
    /\ status["lodging_specialist_task"] = "DONE"

(* C2 *)

\* C2: when a stage with a non-empty declared upstream list runs, its context
\* holds an entry for every declared upstream stage that is DONE and none for
\* a declared upstream stage that is SKIPPED.
C2_ContextEntries ==
    \A t \in Tasks :
        (Contexts(t) # {} /\ status[t] \in { "RUNNING", "DONE", "FAILED" })
           => \A u \in Contexts(t) :
                 /\ status[u] = "DONE" => u \in context[t]
                 /\ status[u] = "SKIPPED" => u \notin context[t]

C2_Witness ==
    /\ status["budget_aggregation_and_variants_task"] = "RUNNING"
    /\ status["transport_planner_task"] = "SKIPPED"
    /\ status["lodging_specialist_task"] = "DONE"
    /\ "lodging_specialist_task" \in context["budget_aggregation_and_variants_task"]
    /\ "transport_planner_task" \notin context["budget_aggregation_and_variants_task"]

(* C3 *)

AllowedMoves ==
    { <<"PENDING", "SKIPPED">>, <<"PENDING", "ELIGIBLE">>, <<"ELIGIBLE", "RUNNING">>,
      <<"RUNNING", "DONE">>, <<"RUNNING", "FAILED">> }

\* C3: every stage starts PENDING and its status changes only along
\* PENDING -> SKIPPED, PENDING -> ELIGIBLE -> RUNNING -> DONE or RUNNING -> FAILED,
\* so a stage that is DONE, FAILED or SKIPPED keeps that status.
C3_StatusMachine ==
    /\ \A t \in Tasks : status[t] = "PENDING"
    /\ [][ \A t \in Tasks :
              status'[t] # status[t] => <<status[t], status'[t]>> \in AllowedMoves ]_vars

C3_Witness ==
    /\ status["transport_planner_task"] = "SKIPPED"
    /\ status["lodging_specialist_task"] = "DONE"
    /\ status["daily_activities_sequencing_task"] = "FAILED"
    /\ driver = "raised"

(* C4 *)

\* C4: once a stage is FAILED the run is halted: no PENDING stage leaves
\* PENDING any more, no final itinerary document exists or is written, the
\* run driver never returns normally, and it raises to its caller.
C4_FailureHalts ==
    /\ [](AnyFailed => final_docs = 0 /\ driver \in { "except", "raised" })
    /\ [][ AnyFailed =>
              /\ \A t \in Tasks : status[t] = "PENDING" => status'[t] = "PENDING"
              /\ final_docs' = 0
              /\ driver' # "returned" ]_vars
    /\ (AnyFailed ~> driver = "raised")

C4_Witness ==
    /\ status["lodging_specialist_task"] = "FAILED"
    /\ status["daily_activities_sequencing_task"] = "PENDING"
    /\ status["itinerary_synthesizer_task"] = "PENDING"
    /\ final_docs = 0
    /\ driver = "raised"

(* C5 *)

\* C5: whatever gated stages are skipped, a run in which no stage fails goes
\* on to execute every stage that is not gated out, the terminal
\* itinerary_synthesis stage included.
C5_SkipNeverBlocks ==
    <>( \/ AnyFailed
        \/ /\ status[TerminalTask] = "DONE"
           /\ \A t \in Tasks : status[t] \in { "DONE", "SKIPPED" }
           /\ \A t \in Tasks \ ConditionalTasks : status[t] = "DONE" )

C5_Witness ==
    /\ \A t \in ConditionalTasks : status[t] = "SKIPPED"
    /\ \A t \in Tasks \ ConditionalTasks : status[t] = "DONE"
    /\ driver = "returned"


(* C6 *)

\* C6 as stated: a run whose services name none of restaurants, lodging and
\* accommodation ends with transport, lodging and dining all SKIPPED.
C6_AllSkippedAtEnd ==
    (NoGatedService /\ RunOver) => \A t \in ConditionalTasks : status[t] = "SKIPPED"

\* C6: in a run whose services name none of restaurants, lodging and
\* accommodation, none of transport, lodging and dining is ever admitted or
\* run; each is SKIPPED once the process has reached it, and so all three are
\* SKIPPED when the run returns.
C6_NeverRunSkippedOnceReached ==
    NoGatedService =>
        \A t \in ConditionalTasks :
            /\ status[t] \in { "PENDING", "SKIPPED" }
            /\ idx > Pos(t) => status[t] = "SKIPPED"
            /\ driver = "returned" => status[t] = "SKIPPED"

C6_Witness ==
    /\ services = { "transport" }
    /\ driver = "returned"
    /\ \A t \in ConditionalTasks : status[t] = "SKIPPED" /\ gate_input[t] = "linked"

(* C7 *)

\* C7: the lodging gate is the OR of the results of the two predicates: once
\* evaluated, lodging is admitted exactly when has_lodging or
\* has_accommodation holds of the output the gate was given.
C7_LodgingGateIsOrOfResults ==
    GateEvaluated("lodging_specialist_task") =>
        ( (status["lodging_specialist_task"] # "SKIPPED")
            <=> ( \/ has_lodging(gate_input["lodging_specialist_task"])
                  \/ has_accommodation(gate_input["lodging_specialist_task"]) ) )

(* C8 *)

\* C8 as stated: a run whose services name neither lodging nor accommodation
\* has its lodging stage SKIPPED.
C8_LodgingSkippedAtEnd ==
    (NoLodgingService /\ RunOver) => status["lodging_specialist_task"] = "SKIPPED"

\* C8: in a run whose services name neither lodging nor accommodation the
\* lodging gate is false of every output it can be given, the lodging stage
\* is never admitted or run, and it is SKIPPED once the process has reached it.
C8_LodgingGateFalse ==
    NoLodgingService =>
        /\ \A o \in OutputShapes : ~ShouldExecute("lodging_specialist_task", o)
        /\ status["lodging_specialist_task"] \in { "PENDING", "SKIPPED" }
        /\ idx > Pos("lodging_specialist_task")
              => status["lodging_specialist_task"] = "SKIPPED"

C8_Witness ==
    /\ services = { "restaurants", "transport" }
    /\ status["transport_planner_task"] = "DONE"
    /\ gate_input["lodging_specialist_task"] = "linked"
    /\ status["lodging_specialist_task"] = "SKIPPED"
    /\ status["daily_activities_sequencing_task"] = "RUNNING"

(* C9 *)

\* C9: the result a gate gave in this run is the result it gives, for the
\* same services, on every other output an earlier stage can hand it.
C9_GateIndependentOfOutputs ==
    \A t \in ConditionalTasks :
        GateEvaluated(t) =>
            \A o \in OutputShapes :
                ShouldExecute(t, o) = ShouldExecute(t, gate_input[t])

(* C10 *)

\* C10 as stated: the declared upstream list of every stage is the union of
\* the groups placed before its own group in the chain.
C10_DeclaredIsChainUpstream ==
    \A t \in Tasks : ContextBuilt(t) => Contexts(t) = ChainUpstream(t)

\* C10: the declared upstream list of every stage is the union of the groups
\* placed before its own group in the chain, except that weather also declares
\* live_news and dining does not declare daily_activities; a context holds
\* entries of declared stages only.
C10_DeclaredIsChainUpstreamBut ==
    \A t \in Tasks :
        ContextBuilt(t) =>
            /\ context[t] \subseteq Contexts(t)
            /\ Contexts(t) =
                 CASE t = "weather_analyst_task" ->
                        ChainUpstream(t) \cup { "live_news_task" }
                   [] t = "dining_recommender_task" ->
                        ChainUpstream(t) \ { "daily_activities_sequencing_task" }
                   [] OTHER -> ChainUpstream(t)

C10_Witness ==
    /\ status["dining_recommender_task"] = "RUNNING"
    /\ status["daily_activities_sequencing_task"] = "DONE"
    /\ "daily_activities_sequencing_task" \notin context["dining_recommender_task"]
    /\ "live_news_task" \in context["weather_analyst_task"]
    /\ "transport_planner_task" \notin context["lodging_specialist_task"]


(* C11 *)

\* C11: the final itinerary document is written at most once, only by the
\* step in which itinerary_synthesis goes from RUNNING to DONE, and only when
\* every other stage is DONE or SKIPPED; a run that returns has written it
\* exactly once.
C11_FinalDocumentOnce ==
    /\ [](final_docs <= 1)
    /\ [](final_docs >= 1 =>
            /\ status["itinerary_synthesizer_task"] = "DONE"
            /\ \A t \in Tasks : status[t] \in { "DONE", "SKIPPED" })
    /\ [](driver = "returned" => final_docs = 1)
    /\ [][ final_docs' # final_docs =>
              /\ final_docs' = final_docs + 1
              /\ status["itinerary_synthesizer_task"] = "RUNNING"
              /\ status'["itinerary_synthesizer_task"] = "DONE"
              /\ \A t \in Tasks \ { "itinerary_synthesizer_task" } :
                    status[t] \in { "DONE", "SKIPPED" } ]_vars

C11_Witness ==
    /\ final_docs = 1
    /\ driver = "returned"
    /\ status["lodging_specialist_task"] = "SKIPPED"
    /\ status["dining_recommender_task"] = "DONE"


----------------------------------------------------------------------------
(* JSON values, JSON text and the results log (api.py, write_root_cause).   *)

\* Number of distinct records a log file may hold before the calls modelled.
NRecIds == 2

\* Longest array held by the log file before the calls modelled.
MaxInitLen == 2

\* Number of callers of write_root_cause.
NWriters == 2

Writers == 1..NWriters

\* JSON values: dicts and scalars told apart by id, and lists of values.
Null == [t |-> "none", id |-> 0, items |-> <<>>]
Dict(k) == [t |-> "dict", id |-> k, items |-> <<>>]
Scalar(k) == [t |-> "scalar", id |-> k, items |-> <<>>]
List(seq) == [t |-> "list", id |-> 0, items |-> seq]

\* isinstance(v, list) / isinstance(v, dict)
IsList(v) == v.t = "list"
IsDict(v) == v.t = "dict"

\* JSON text: either text no JSON parser accepts, or the text of a value.
InvalidText == [valid |-> FALSE, denotes |-> Null]

\* json.dump / json.dumps of a value.
JsonDump(v) == [valid |-> TRUE, denotes |-> v]

\* json.load / json.loads of text: the value, or JSONDecodeError.
JsonLoad(text) ==
    IF text.valid THEN [ok |-> TRUE, value |-> text.denotes]
    ELSE [ok |-> FALSE, value |-> Null]

\* The log file: absent, or holding text.
AbsentFile == [exists |-> FALSE, text |-> InvalidText]
FileOf(text) == [exists |-> TRUE, text |-> text]

\* Sequences of at most n elements of S.
SeqsUpTo(S, n) == UNION { [1..k -> S] : k \in 0..n }

\* The records the log file may hold at the start.
OldRecords == { Dict(k) : k \in 1..NRecIds }

\* The log files a call may find.
InitialFiles ==
    { AbsentFile, FileOf(InvalidText), FileOf(JsonDump(Dict(1))), FileOf(JsonDump(Scalar(1))) }
    \cup { FileOf(JsonDump(List(q))) : q \in SeqsUpTo(OldRecords, MaxInitLen) }

\* The record caller w brings: distinct from every other record.
NewRecord(w) == Dict(NRecIds + w)

\* The obj arguments of caller w, by Python type:
\*   dict     a dict
\*   str      a string (valid JSON text of the record or of a scalar, or invalid)
\*   to_dict  an object with a callable to_dict
\*   object   an object with a __dict__ and no to_dict
\*   novars   a non-dict object with neither (vars(obj) raises TypeError)
ObjArgs(w) ==
    { [py |-> "dict", val |-> NewRecord(w), text |-> InvalidText],
      [py |-> "str", val |-> Null, text |-> JsonDump(NewRecord(w))],
      [py |-> "str", val |-> Null, text |-> JsonDump(Scalar(NRecIds + w))],
      [py |-> "str", val |-> Null, text |-> InvalidText],
      [py |-> "to_dict", val |-> NewRecord(w), text |-> InvalidText],
      [py |-> "object", val |-> NewRecord(w), text |-> InvalidText],
      [py |-> "novars", val |-> Null, text |-> InvalidText] }

\* A plausible slip: the loaded value is wrapped even when it is a list.
LoadDataWrapsAlways(f) ==
    IF ~f.exists THEN <<>>
    ELSE LET r == JsonLoad(f.text) IN
         IF ~r.ok THEN <<>>
         ELSE <<r.value>>

\* A plausible slip: a value that is not a list is dropped, not wrapped.
LoadDataDropsNonList(f) ==
    IF ~f.exists THEN <<>>
    ELSE LET r == JsonLoad(f.text) IN
         IF ~r.ok THEN <<>>
         ELSE IF IsList(r.value) THEN r.value.items ELSE <<>>

\* A plausible slip: text that does not parse is kept as the one old entry.
LoadDataKeepsMalformed(f) ==
    IF ~f.exists THEN <<>>
    ELSE LET r == JsonLoad(f.text) IN
         IF ~r.ok THEN <<Null>>
         ELSE IF IsList(r.value) THEN r.value.items ELSE <<r.value>>

\* data = [] ; if the file exists: data = json.load(f), wrapped in a list
\* when it is not one; data = [] on JSONDecodeError.
LoadData(f) ==
    IF ~f.exists THEN <<>>
    ELSE LET r == JsonLoad(f.text) IN
         IF ~r.ok THEN <<>>
         ELSE IF IsList(r.value) THEN r.value.items ELSE <<r.value>>

\* A plausible slip: a string that does not parse is appended as it is.
ConvertObjKeepsText(obj) ==
    IF obj.py = "str"
    THEN LET r == JsonLoad(obj.text) IN
         IF r.ok THEN [does |-> "append", val |-> r.value]
         ELSE [does |-> "append", val |-> Scalar(0)]
    ELSE IF obj.py = "dict" THEN [does |-> "append", val |-> obj.val]
    ELSE IF obj.py \in { "to_dict", "object" } THEN [does |-> "append", val |-> obj.val]
    ELSE [does |-> "raise", val |-> Null]

\* The conversion of obj before it is appended: the value to append
\* ("append"), an early return ("return"), or an error raised ("raise").
ConvertObj(obj) ==
    IF obj.py = "str"
    THEN LET r == JsonLoad(obj.text) IN
         IF r.ok THEN [does |-> "append", val |-> r.value]
         ELSE [does |-> "return", val |-> Null]
    ELSE IF obj.py = "dict" THEN [does |-> "append", val |-> obj.val]
    ELSE IF obj.py \in { "to_dict", "object" } THEN [does |-> "append", val |-> obj.val]
    ELSE [does |-> "raise", val |-> Null]

IdleWriter == [pc |-> "idle", obj |-> Null, data |-> <<>>, before |-> AbsentFile]

\* No run of the crew beside the log or the HTTP service.
PipeIdle ==
    /\ services = {}
    /\ idx = 0
    /\ status = <<>>
    /\ context = <<>>
    /\ prev_output = NoOutput
    /\ gate_input = <<>>
    /\ driver = "idle"
    /\ final_docs = 0

LogInit ==
    /\ file \in InitialFiles
    /\ writers = [w \in Writers |-> IdleWriter]
    /\ PipeIdle
    /\ ApiIdle
    /\ ToolIdle

\* write_root_cause(json_filename, directory, obj) is called by w.
WriterCall(w) ==
    /\ writers[w].pc = "idle"
    /\ \E o \in ObjArgs(w) :
          writers' = [writers EXCEPT ![w] =
                         [pc |-> "called", obj |-> o, data |-> <<>>, before |-> file]]
    /\ UNCHANGED <<file, pipevars, apivars, toolvars>>

\* Lines 35-46: the existing log is read into data.
WriterRead(w) ==
    /\ writers[w].pc = "called"
    /\ writers' = [writers EXCEPT ![w].pc = "read", ![w].data = LoadData(file)]
    /\ UNCHANGED <<file, pipevars, apivars, toolvars>>

\* Lines 49-62: obj is converted and appended to data, or the call ends.
WriterConvert(w) ==
    /\ writers[w].pc = "read"
    /\ LET c == ConvertObj(writers[w].obj) IN
       writers' = [writers EXCEPT
                      ![w].pc = CASE c.does = "append" -> "appended"
                                  [] c.does = "return" -> "returned_early"
                                  [] c.does = "raise" -> "raised",
                      ![w].obj = c.val,
                      ![w].data = IF c.does = "append"
                                  THEN Append(writers[w].data, c.val)
                                  ELSE writers[w].data]
    /\ UNCHANGED <<file, pipevars, apivars, toolvars>>

\* Line 65: open(filepath, "w") creates or truncates the file.
WriterOpen(w) ==
    /\ writers[w].pc = "appended"
    /\ file' = FileOf(InvalidText)
    /\ writers' = [writers EXCEPT ![w].pc = "opened"]
    /\ UNCHANGED <<pipevars, apivars, toolvars>>

\* Line 66: json.dump(data, f) and the file is closed.
WriterDump(w) ==
    /\ writers[w].pc = "opened"
    /\ file' = FileOf(JsonDump(List(writers[w].data)))
    /\ writers' = [writers EXCEPT ![w].pc = "returned"]
    /\ UNCHANGED <<pipevars, apivars, toolvars>>

\* Caller w is inside a call of write_root_cause.
InCall(w) == writers[w].pc \in { "called", "read", "appended", "opened" }


\* No other caller is inside a call of write_root_cause.
Alone(w) == \A v \in Writers \ {w} : ~InCall(v)

\* Callers of write_root_cause on threads of their own (run_job is a plain
\* def run as a background task): their steps interleave freely.
LogNext ==
    \/ \E w \in Writers : WriterCall(w)
    \/ \E w \in Writers : WriterRead(w)
    \/ \E w \in Writers : WriterConvert(w)
    \/ \E w \in Writers : WriterOpen(w)
    \/ \E w \in Writers : WriterDump(w)

LogSpec == LogInit /\ [][LogNext]_vars

\* Calls of write_root_cause one after the other.
LogSeqNext ==
    \/ \E w \in Writers : Alone(w) /\ WriterCall(w)
    \/ \E w \in Writers : Alone(w) /\ WriterRead(w)
    \/ \E w \in Writers : Alone(w) /\ WriterConvert(w)
    \/ \E w \in Writers : Alone(w) /\ WriterOpen(w)
    \/ \E w \in Writers : Alone(w) /\ WriterDump(w)

LogSeqSpec == LogInit /\ [][LogSeqNext]_vars


----------------------------------------------------------------------------
(* Vocabulary of the properties of the results log.                         *)

\* The file holds valid JSON text of a top-level array.
IsArrayFile(f) == f.exists /\ f.text.valid /\ IsList(f.text.denotes)

\* The file holds valid JSON text of a value that is not an array.
IsNonArrayFile(f) == f.exists /\ f.text.valid /\ ~IsList(f.text.denotes)

\* The file holds text that is not valid JSON.
IsMalformedFile(f) == f.exists /\ ~f.text.valid

\* The elements of the array the file holds.
ArrayOf(f) == f.text.denotes.items

\* The records a reader finds in the file.
RecordsIn(f) == { LoadData(f)[i] : i \in 1..Len(LoadData(f)) }

\* This step is the step in which the call of w writes the log and returns.
Appends(w) == writers[w].pc = "opened" /\ writers'[w].pc = "returned"

\* The call of w has ended, one way or another.
CallEnded(w) == writers[w].pc \in { "returned", "returned_early", "raised" }

(* C12 *)

\* C12: when all concurrent calls have appended and returned, the file holds
\* the new record of each of them and every record each of them found.
C12_NoLostUpdate ==
    (\A w \in Writers : writers[w].pc = "returned") =>
        \A w \in Writers :
            /\ writers[w].obj \in RecordsIn(file)
            /\ RecordsIn(writers[w].before) \subseteq RecordsIn(file)

(* C13 *)

\* C13: a call that appends to a file holding an array of N records leaves
\* an array of N+1 records: the N prior ones in order, then the new one.
C13_AppendYieldsNPlusOne ==
    [][ \A w \in Writers :
           (Appends(w) /\ IsArrayFile(writers[w].before)) =>
               /\ IsArrayFile(file')
               /\ Len(ArrayOf(file')) = Len(ArrayOf(writers[w].before)) + 1
               /\ ArrayOf(file') = Append(ArrayOf(writers[w].before), writers[w].obj) ]_vars

C13_Witness ==
    \E w \in Writers :
        /\ writers[w].pc = "returned"
        /\ IsArrayFile(writers[w].before)
        /\ Len(ArrayOf(writers[w].before)) = MaxInitLen
        /\ IsArrayFile(file)
        /\ ArrayOf(file) = Append(ArrayOf(writers[w].before), NewRecord(w))

(* C14 *)

\* C14 as stated: every call of write_root_cause leaves the log file holding
\* a top-level JSON array.
C14_AlwaysArray ==
    \A w \in Writers : (CallEnded(w) /\ Alone(w)) => IsArrayFile(file)

\* C14: every call that appends a record leaves the log file holding a
\* top-level JSON array: [new] when the file was absent, [old, new] when it
\* held valid JSON that was not an array.
C14_ArrayWhenAppended ==
    [][ \A w \in Writers :
           Appends(w) =>
               /\ IsArrayFile(file')
               /\ ~writers[w].before.exists => ArrayOf(file') = <<writers[w].obj>>
               /\ IsNonArrayFile(writers[w].before) =>
                     ArrayOf(file') = <<writers[w].before.text.denotes, writers[w].obj>> ]_vars

C14_Witness ==
    \E w \in Writers :
        /\ writers[w].pc = "returned"
        /\ writers[w].before = FileOf(JsonDump(Dict(1)))
        /\ file = FileOf(JsonDump(List(<<Dict(1), NewRecord(w)>>)))

(* C15 *)

\* C15: a call that finds text that is not valid JSON does not raise on it:
\* it reads the log as empty, and when it appends its record the file holds
\* the array of that one record.
C15_MalformedReadAsEmpty ==
    /\ [](\A w \in Writers :
            (writers[w].pc = "read" /\ IsMalformedFile(writers[w].before))
               => writers[w].data = <<>>)
    /\ [][ \A w \in Writers :
              (writers[w].pc = "called" /\ IsMalformedFile(file))
                 => writers'[w].pc \in { "called", "read" } ]_vars
    /\ [][ \A w \in Writers :
              (Appends(w) /\ IsMalformedFile(writers[w].before)) =>
                  /\ IsArrayFile(file')
                  /\ ArrayOf(file') = <<writers[w].obj>> ]_vars

C15_Witness ==
    \E w \in Writers :
        /\ writers[w].pc = "returned"
        /\ writers[w].before = FileOf(InvalidText)
        /\ file = FileOf(JsonDump(List(<<NewRecord(w)>>)))


----------------------------------------------------------------------------
(* The HTTP service (api.py): results, kickoff_post, run_job, get_results.  *)

\* Number of job ids uuid4 hands out in the runs modelled.
MaxJobs == 2

\* Number of HTTP requests handled in the runs modelled.
MaxRequests == 4

\* Number of distinct input objects submitted.
NInputs == 2

\* Number of parameters of main.run (def run():).
RunArity == 0

JobIds == 1..MaxJobs

\* A job id no kickoff_post ever issued.
UnknownId == 0

PollIds == JobIds \cup { UnknownId }

\* The inputs strings of the requests: invalid JSON, JSON objects, and JSON
\* that is no object.
InputTexts ==
    { InvalidText, JsonDump(List(<<>>)), JsonDump(Scalar(1)) }
    \cup { JsonDump(Dict(k)) : k \in 1..NInputs }

\* job_id not in results
NoEntry == [status |-> "none", data |-> Null]

\* {"status": "running"}
RunningEntry == [status |-> "running", data |-> Null]

\* {"status": "done", "data": output.raw}
DoneEntry(d) == [status |-> "done", data |-> d]

InRegistry(id) == id \in JobIds /\ results[id] # NoEntry

NoJob == [pc |-> "none", arg |-> [py |-> "none", val |-> Null, text |-> InvalidText],
          pipeline |-> "not_run"]

NoExchange == [op |-> "none", text |-> InvalidText, id |-> UnknownId, code |-> 0,
               body |-> [status |-> "none", job_id |-> UnknownId, data |-> Null]]

\* json.loads(x) of a Python value: TypeError unless x is a str.
PyJsonLoads(x) ==
    IF x.py = "str" THEN JsonLoad(x.text) ELSE [ok |-> FALSE, value |-> Null]

\* run(*args): TypeError unless the number of arguments is that of run's
\* parameters; else the crew is kicked off with run's own inputs and run
\* returns None when kickoff returns, or raises when it raises.
CallRun(args, kickoff_ok) ==
    IF Len(args) # RunArity THEN [raised |-> TRUE, pipeline |-> "not_run"]
    ELSE IF kickoff_ok THEN [raised |-> FALSE, pipeline |-> "succeeded"]
    ELSE [raised |-> TRUE, pipeline |-> "failed"]

\* The try body of run_job up to output.raw: what it ends in.
\*   data = json.loads(inputs); isinstance(data, dict); output = run(data);
\*   output.raw (output is what run returned: None)
RunJobBody(arg, kickoff_ok) ==
    LET r == PyJsonLoads(arg) IN
    IF ~r.ok THEN [raised |-> TRUE, pipeline |-> "not_run"]
    ELSE IF ~IsDict(r.value) THEN [raised |-> TRUE, pipeline |-> "not_run"]
    ELSE LET out == CallRun(<<r.value>>, kickoff_ok) IN
         IF out.raised THEN out
         ELSE [raised |-> TRUE, pipeline |-> out.pipeline]

ApiInit ==
    /\ results = [j \in JobIds |-> NoEntry]
    /\ jobs = [j \in JobIds |-> NoJob]
    /\ last = NoExchange
    /\ nreq = 0
    /\ file = AbsentFile
    /\ writers = <<>>
    /\ PipeIdle
    /\ ToolIdle

\* GET /health
Health ==
    /\ nreq < MaxRequests
    /\ nreq' = nreq + 1
    /\ last' = [op |-> "health", text |-> InvalidText, id |-> UnknownId, code |-> 200,
                body |-> [status |-> "ok", job_id |-> UnknownId, data |-> Null]]
    /\ UNCHANGED <<results, jobs, pipevars, logvars, toolvars>>

\* The response of kickoff_post to an inputs string it rejects.
BadInputs(text) ==
    [op |-> "kickoff_post", text |-> text, id |-> UnknownId, code |-> 400,
     body |-> [status |-> "error", job_id |-> UnknownId, data |-> Null]]

\* The response of kickoff_post to an inputs string it accepts.
Accepted(text, j) ==
    [op |-> "kickoff_post", text |-> text, id |-> UnknownId, code |-> 200,
     body |-> [status |-> "accepted", job_id |-> j, data |-> Null]]

\* A plausible slip: the task is scheduled and the id returned, but the
\* registry entry is left for run_job to write.
KickoffPostNoEntry(text) ==
    /\ nreq < MaxRequests
    /\ nreq' = nreq + 1
    /\ LET r == JsonLoad(text) IN
       IF ~r.ok \/ ~IsDict(r.value)
       THEN /\ last' = BadInputs(text)
            /\ UNCHANGED <<results, jobs>>
       ELSE \E j \in JobIds :
              /\ results[j] = NoEntry
              /\ jobs[j] = NoJob
              /\ jobs' = [jobs EXCEPT ![j] =
                             [pc |-> "scheduled",
                              arg |-> [py |-> "dict", val |-> r.value, text |-> InvalidText],
                              pipeline |-> "not_run"]]
              /\ last' = Accepted(text, j)
              /\ UNCHANGED results
    /\ UNCHANGED <<pipevars, logvars, toolvars>>

\* A plausible slip: the isinstance(data, dict) test is missing.
KickoffPostAnyJson(text) ==
    /\ nreq < MaxRequests
    /\ nreq' = nreq + 1
    /\ LET r == JsonLoad(text) IN
       IF ~r.ok
       THEN /\ last' = BadInputs(text)
            /\ UNCHANGED <<results, jobs>>
       ELSE \E j \in JobIds :
              /\ results[j] = NoEntry
              /\ results' = [results EXCEPT ![j] = RunningEntry]
              /\ jobs' = [jobs EXCEPT ![j] =
                             [pc |-> "scheduled",
                              arg |-> [py |-> "dict", val |-> r.value, text |-> InvalidText],
                              pipeline |-> "not_run"]]
              /\ last' = Accepted(text, j)
    /\ UNCHANGED <<pipevars, logvars, toolvars>>

\* A plausible slip: the registry is rebound to a new dict holding the new
\* job only.
KickoffPostResetsRegistry(text) ==
    /\ nreq < MaxRequests
    /\ nreq' = nreq + 1
    /\ LET r == JsonLoad(text) IN
       IF ~r.ok \/ ~IsDict(r.value)
       THEN /\ last' = BadInputs(text)
            /\ UNCHANGED <<results, jobs>>
       ELSE \E j \in JobIds :
              /\ results[j] = NoEntry
              /\ jobs[j] = NoJob
              /\ results' = [k \in JobIds |-> IF k = j THEN RunningEntry ELSE NoEntry]
              /\ jobs' = [jobs EXCEPT ![j] =
                             [pc |-> "scheduled",
                              arg |-> [py |-> "dict", val |-> r.value, text |-> InvalidText],
                              pipeline |-> "not_run"]]
              /\ last' = Accepted(text, j)
    /\ UNCHANGED <<pipevars, logvars, toolvars>>

\* POST /kickoff_post: json.loads(inputs) raising, or giving no dict, ends in
\* HTTP 400; else a new uuid4 is registered as running, run_job(job_id, data)
\* is added to the background tasks and the id is returned.
KickoffPost(text) ==
    /\ nreq < MaxRequests
    /\ nreq' = nreq + 1
    /\ LET r == JsonLoad(text) IN
       IF ~r.ok \/ ~IsDict(r.value)
       THEN /\ last' = BadInputs(text)
            /\ UNCHANGED <<results, jobs>>
       ELSE \E j \in JobIds :
              /\ results[j] = NoEntry
              /\ results' = [results EXCEPT ![j] = RunningEntry]
              /\ jobs' = [jobs EXCEPT ![j] =
                             [pc |-> "scheduled",
                              arg |-> [py |-> "dict", val |-> r.value, text |-> InvalidText],
                              pipeline |-> "not_run"]]
              /\ last' = Accepted(text, j)
    /\ UNCHANGED <<pipevars, logvars, toolvars>>

\* The background task of job j starts, after the response was sent.
RunJobStart(j) ==
    /\ jobs[j].pc = "scheduled"
    /\ jobs' = [jobs EXCEPT ![j].pc = "running"]
    /\ UNCHANGED <<results, last, nreq, pipevars, logvars, toolvars>>

\* A plausible slip: the except clause stores the failure under a third
\* status with the partial output as data.
RunJobEndStoresFailure(j) ==
    /\ jobs[j].pc = "running"
    /\ \E kickoff_ok \in BOOLEAN :
          LET b == RunJobBody(jobs[j].arg, kickoff_ok) IN
          IF b.raised
          THEN /\ jobs' = [jobs EXCEPT ![j].pc = "raised", ![j].pipeline = b.pipeline]
               /\ results' = [results EXCEPT ![j] = [status |-> "failed", data |-> jobs[j].arg.val]]
               /\ UNCHANGED file
          ELSE /\ jobs' = [jobs EXCEPT ![j].pc = "ended", ![j].pipeline = b.pipeline]
               /\ file' = FileOf(JsonDump(List(Append(LoadData(file), jobs[j].arg.val))))
               /\ results' = [results EXCEPT ![j] = DoneEntry(jobs[j].arg.val)]
    /\ UNCHANGED <<last, nreq, pipevars, writers, toolvars>>

\* run_job(job_id, inputs) runs to its end: either the try body gets through
\* (the output is logged and the job marked done) or it raises and the
\* except clause raises HTTPException out of the background task.
RunJobEnd(j) ==
    /\ jobs[j].pc = "running"
    /\ \E kickoff_ok \in BOOLEAN :
          LET b == RunJobBody(jobs[j].arg, kickoff_ok) IN
          IF b.raised
          THEN /\ jobs' = [jobs EXCEPT ![j].pc = "raised", ![j].pipeline = b.pipeline]
               /\ UNCHANGED <<results, file>>
          ELSE /\ jobs' = [jobs EXCEPT ![j].pc = "ended", ![j].pipeline = b.pipeline]
               /\ file' = FileOf(JsonDump(List(Append(LoadData(file), jobs[j].arg.val))))
               /\ results' = [results EXCEPT ![j] = DoneEntry(jobs[j].arg.val)]
    /\ UNCHANGED <<last, nreq, pipevars, writers, toolvars>>

\* A plausible slip: the entry is handed out with results.pop(job_id).
GetResultsPops(id) ==
    /\ nreq < MaxRequests
    /\ nreq' = nreq + 1
    /\ IF ~InRegistry(id)
       THEN /\ last' = [op |-> "get_results", text |-> InvalidText, id |-> id, code |-> 404,
                        body |-> [status |-> "error", job_id |-> UnknownId, data |-> Null]]
            /\ UNCHANGED results
       ELSE /\ last' = [op |-> "get_results", text |-> InvalidText, id |-> id, code |-> 200,
                        body |-> [status |-> results[id].status, job_id |-> UnknownId,
                                  data |-> results[id].data]]
            /\ results' = [results EXCEPT ![id] = NoEntry]
    /\ UNCHANGED <<jobs, pipevars, logvars, toolvars>>

\* GET /results/{job_id}: 404 when job_id is not in results, else its entry.
GetResults(id) ==
    /\ nreq < MaxRequests
    /\ nreq' = nreq + 1
    /\ last' = IF ~InRegistry(id)
               THEN [op |-> "get_results", text |-> InvalidText, id |-> id, code |-> 404,
                     body |-> [status |-> "error", job_id |-> UnknownId, data |-> Null]]
               ELSE [op |-> "get_results", text |-> InvalidText, id |-> id, code |-> 200,
                     body |-> [status |-> results[id].status, job_id |-> UnknownId,
                               data |-> results[id].data]]
    /\ UNCHANGED <<results, jobs, pipevars, logvars, toolvars>>

ApiNext ==
    \/ Health
    \/ \E text \in InputTexts : KickoffPost(text)
    \/ \E j \in JobIds : RunJobStart(j)
    \/ \E j \in JobIds : RunJobEnd(j)
    \/ \E id \in PollIds : GetResults(id)

ApiSpec == ApiInit /\ [][ApiNext]_vars

\* Every background task that was added is run, and runs to its end.
FairApiSpec ==
    /\ ApiSpec
    /\ \A j \in JobIds : WF_vars(RunJobStart(j)) /\ WF_vars(RunJobEnd(j))

----------------------------------------------------------------------------
(* Properties of the HTTP service.                                          *)

\* kickoff_post returned job id j to some client.
Issued(id) == id \in JobIds /\ jobs[id] # NoJob

\* The background task of job j is over, by return or by exception.
TaskOver(j) == jobs[j].pc \in {"raised", "ended"}

\* The background task of job j was added and is not over.
TaskPending(j) == jobs[j].pc \in {"scheduled", "running"}

\* This step is the handling of one request by the named handler.
Handled(op) == nreq' = nreq + 1 /\ last'.op = op

\* The inputs string parses to a JSON object.
IsObjectText(text) == JsonLoad(text).ok /\ IsDict(JsonLoad(text).value)

\* C16: a job accepted by kickoff_post whose background task has run to its
\* end without a failure of the pipeline has registry status "done", with
\* data attached.
C16_AcceptedJobDone ==
    \A j \in JobIds :
        (Issued(j) /\ TaskOver(j) /\ jobs[j].pipeline # "failed")
            => (results[j].status = "done" /\ results[j].data # Null)

\* C17: a job whose background task failed does not show status "running":
\* the failure is in its registry entry for the next poll to return.
C17_FailureRecorded ==
    \A j \in JobIds : jobs[j].pc = "raised" => results[j].status # "running"

\* C18: kickoff_post with an inputs string that parses to a JSON object
\* answers {status: "accepted", job_id} with a job id that was not in the
\* registry, has registered it as "running" and has only scheduled the
\* background task; a poll of a job whose background task is not over
\* returns {status: "running"}.
C18_AcceptedIsRunning ==
    [][ /\ (Handled("kickoff_post") /\ IsObjectText(last'.text)) =>
              /\ last'.code = 200
              /\ last'.body.status = "accepted"
              /\ last'.body.job_id \in JobIds
              /\ ~InRegistry(last'.body.job_id)
              /\ results' = [results EXCEPT ![last'.body.job_id] = RunningEntry]
              /\ jobs'[last'.body.job_id].pc = "scheduled"
        /\ (Handled("get_results") /\ Issued(last'.id) /\ TaskPending(last'.id)) =>
              /\ last'.code = 200
              /\ last'.body.status = "running"
      ]_vars

C18_Witness ==
    /\ last.op = "get_results"
    /\ Issued(last.id)
    /\ TaskPending(last.id)
    /\ last.body.status = "running"

\* C19: kickoff_post with an inputs string that is not valid JSON, or parses
\* to something other than an object, answers HTTP 400, registers no job,
\* schedules no background task and leaves the registry as it was.
C19_BadInputsRejected ==
    [][ (Handled("kickoff_post") /\ ~IsObjectText(last'.text)) =>
              /\ last'.code = 400
              /\ results' = results
              /\ jobs' = jobs
              /\ UNCHANGED <<pipevars, logvars, toolvars>>
      ]_vars

C19_Witness ==
    /\ last.op = "kickoff_post"
    /\ last.code = 400
    /\ JsonLoad(last.text).ok
    /\ ~IsDict(JsonLoad(last.text).value)
    /\ \E j \in JobIds : InRegistry(j)

\* C20: a poll of a job id kickoff_post never issued answers HTTP 404, a poll
\* of an issued job id never answers 404, and no poll changes the registry.
C20_PollReadsOnly ==
    [][ Handled("get_results") =>
              /\ results' = results
              /\ ~Issued(last'.id) => last'.code = 404
              /\ Issued(last'.id) => last'.code # 404
      ]_vars

C20_Witness ==
    /\ last.op = "get_results"
    /\ last.code = 404
    /\ ~Issued(last.id)
    /\ \E j \in JobIds : InRegistry(j)


\* C21: an entry handed to a caller by get_results has status "running" or
\* "done", has data only when its status is "done", and is "done" only for
\* a job whose pipeline ran to its end without a failed stage.
C21_ReturnedEntryShape ==
    (last.op = "get_results" /\ last.code = 200) =>
        /\ last.body.status \in {"running", "done"}
        /\ last.body.data # Null => last.body.status = "done"
        /\ last.body.status = "done" => jobs[last.id].pipeline = "succeeded"

C21_Witness ==
    /\ last.op = "get_results"
    /\ last.code = 200
    /\ jobs[last.id].pc = "raised"
    /\ last.body = [status |-> "running", job_id |-> UnknownId, data |-> Null]

----------------------------------------------------------------------------
(* Concurrent kickoffs and the output files of the tasks (crew.py).         *)

\* Number of kickoffs in progress at the same time.
NRuns == 2

Runs == 1..NRuns

\* output_file of task t: a fixed relative path, the same for every kickoff.
OutputFile(t) ==
    CASE t = "profiler_task" -> "tasks_outputs/profile.json"
      [] t = "live_news_task" -> "tasks_outputs/live_news.json"
      [] t = "weather_analyst_task" -> "tasks_outputs/weather_analyst.json"
      [] t = "transport_planner_task" -> "tasks_outputs/transport_planner.json"
      [] t = "lodging_specialist_task" -> "tasks_outputs/lodging_specialist.json"
      [] t = "daily_activities_sequencing_task" -> "tasks_outputs/daily_activities.json"
      [] t = "dining_recommender_task" -> "tasks_outputs/dining_recommender.json"
      [] t = "budget_aggregation_and_variants_task" -> "tasks_outputs/budget_aggregation.json"
      [] t = "quality_and_consistency_audit_task" -> "tasks_outputs/quality_consistency_audit.json"
      [] t = "itinerary_synthesizer_task" -> "tasks_outputs/itinerary_synthesis.json"

OutputPaths == { OutputFile(t) : t \in Tasks }

\* No kickoff has written the path.
Unwritten == [writer |-> 0, overwrote |-> 0]

\* Kickoff r is between its first and its last task.
InProgress(r) == runs[r].pos \in 1..Len(TaskOrder)

RunsInit ==
    /\ runs = [r \in Runs |-> [pos |-> 0]]
    /\ outfiles = [p \in OutputPaths |-> Unwritten]
    /\ call = <<>>
    /\ registry = <<>>
    /\ PipeIdle
    /\ LogIdle
    /\ ApiIdle

\* GoToJapan().crew().kickoff(inputs=inputs) is entered by r.
RunKickoff(r) ==
    /\ runs[r].pos = 0
    /\ runs' = [runs EXCEPT ![r].pos = 1]
    /\ UNCHANGED <<outfiles, call, registry, pipevars, logvars, apivars>>

\* The task r has reached is executed and its output saved to its
\* output_file; the file keeps no trace of what it held.  The record notes
\* whose output was replaced when that kickoff is still in progress.
RunTaskExecuted(r) ==
    /\ InProgress(r)
    /\ LET t == TaskOrder[runs[r].pos]
           p == OutputFile(t)
           w == outfiles[p].writer
       IN outfiles' = [outfiles EXCEPT ![p] =
              [writer |-> r,
               overwrote |-> IF w \in Runs /\ w # r /\ InProgress(w) THEN w ELSE 0]]
    /\ runs' = [runs EXCEPT ![r].pos = @ + 1]
    /\ UNCHANGED <<call, registry, pipevars, logvars, apivars>>

\* The conditional task r has reached is skipped: nothing is written.
RunTaskSkipped(r) ==
    /\ InProgress(r)
    /\ TaskOrder[runs[r].pos] \in ConditionalTasks
    /\ runs' = [runs EXCEPT ![r].pos = @ + 1]
    /\ UNCHANGED <<outfiles, call, registry, pipevars, logvars, apivars>>

RunsNext ==
    \/ \E r \in Runs : RunKickoff(r)
    \/ \E r \in Runs : RunTaskExecuted(r)
    \/ \E r \in Runs : RunTaskSkipped(r)

RunsSpec == RunsInit /\ [][RunsNext]_vars

\* C22: concurrent runs share no location: no output file holds the output
\* of one run written over the output of another run still in progress.
C22_NoSharedLocation ==
    \A p \in OutputPaths : outfiles[p].overwrote = 0

----------------------------------------------------------------------------
(* The budget: BudgetAggregationOutput (budget_management_tool.py), the     *)
(* output_json of budget_aggregation_and_variants_task, and BudgetCalcTool  *)
(* (other_tools.py).                                                        *)

\* Literal["transport", "lodging", "dining", "activities"]
Categories == {"transport", "lodging", "dining", "activities"}

\* The subtotals and budgets of the runs modelled.
SubtotalValues == {0, 200, 300, 500, 800}

BudgetValues == {0, 1800, 2000}

\* How far from the sum a total written by the agent can be.
MaxSlip == 1

\* Literal["under", "over", "on_target"]
BudgetStatuses == {"under", "over", "on_target"}

\* The key is not in the returned dict.
NoKey == "no_key"

RECURSIVE SumOver(_, _)
\* sum(breakdown.values())
SumOver(breakdown, cats) ==
    IF cats = {} THEN 0
    ELSE LET c == CHOOSE x \in cats : TRUE
         IN breakdown[c] + SumOver(breakdown, cats \ {c})

Sum(breakdown) == SumOver(breakdown, DOMAIN breakdown)

\* What the agent of the budget task can write for a breakdown and a budget:
\* the fields are free text of a language model.
AgentBudgetOutputs(breakdown, budget) ==
    [ total_eur : { Sum(breakdown) + d : d \in -MaxSlip..MaxSlip },
      budget_input_eur : BudgetValues,
      difference_from_budget_eur :
          { Sum(breakdown) - budget, budget - Sum(breakdown), 0 },
      status : BudgetStatuses ]

\* BudgetAggregationOutput(**o) validates: every field is checked on its own
\* (ge=0 on the subtotals, the total and the budget; the status a Literal).
BudgetAggregationOutput(breakdown, o) ==
    /\ DOMAIN breakdown # {}
    /\ \A c \in DOMAIN breakdown : c \in Categories /\ breakdown[c] >= 0
    /\ o.total_eur >= 0
    /\ o.budget_input_eur >= 0
    /\ o.status \in BudgetStatuses

\* BudgetCalcTool._run(breakdown, budget_yen)
BudgetCalcTool(breakdown, budget_yen) ==
    [ total_eur |-> Sum(breakdown),
      budget_input_eur |-> budget_yen,
      difference_from_budget_eur |-> Sum(breakdown) - budget_yen,
      status |-> NoKey ]

BudgetInit ==
    /\ call \in [ fn : {"none"},
                  breakdown : [Categories -> SubtotalValues],
                  budget : BudgetValues,
                  out : { [total_eur |-> 0, budget_input_eur |-> 0,
                           difference_from_budget_eur |-> 0, status |-> NoKey] } ]
    /\ registry = <<>>
    /\ outfiles = <<>>
    /\ runs = <<>>
    /\ PipeIdle
    /\ LogIdle
    /\ ApiIdle

\* The budget task ends: the agent's answer is converted with
\* output_json=BudgetAggregationOutput and kept when it validates.
BudgetTaskOutput ==
    /\ call.fn = "none"
    /\ \E o \in AgentBudgetOutputs(call.breakdown, call.budget) :
          /\ BudgetAggregationOutput(call.breakdown, o)
          /\ call' = [call EXCEPT !.fn = "BudgetAggregationOutput", !.out = o]
    /\ UNCHANGED <<registry, outfiles, runs, pipevars, logvars, apivars>>

\* The agent's answer does not validate: the task has no output.
BudgetTaskRejected ==
    /\ call.fn = "none"
    /\ \E o \in AgentBudgetOutputs(call.breakdown, call.budget) :
          /\ ~BudgetAggregationOutput(call.breakdown, o)
          /\ call' = [call EXCEPT !.fn = "ValidationError"]
    /\ UNCHANGED <<registry, outfiles, runs, pipevars, logvars, apivars>>

\* budget_calc is called with the breakdown and the budget.
BudgetCalcRun ==
    /\ call.fn = "none"
    /\ call' = [call EXCEPT !.fn = "BudgetCalcTool",
                            !.out = BudgetCalcTool(call.breakdown, call.budget)]
    /\ UNCHANGED <<registry, outfiles, runs, pipevars, logvars, apivars>>

BudgetNext ==
    \/ BudgetTaskOutput
    \/ BudgetTaskRejected
    \/ BudgetCalcRun

BudgetSpec == BudgetInit /\ [][BudgetNext]_vars

\* The status the comparison of a total with a budget gives.
StatusOf(total, budget) ==
    IF total < budget THEN "under"
    ELSE IF total > budget THEN "over"
    ELSE "on_target"

\* C23: whatever the budget computation returned for a breakdown and a
\* budget has total = sum of the subtotals, difference = total - budget and
\* the status under / over / on_target of that comparison.
C23_BudgetArithmetic ==
    call.fn \in {"BudgetAggregationOutput", "BudgetCalcTool"} =>
        /\ call.out.total_eur = Sum(call.breakdown)
        /\ call.out.difference_from_budget_eur = call.out.total_eur - call.budget
        /\ call.out.status = StatusOf(call.out.total_eur, call.budget)

----------------------------------------------------------------------------
(* The schemas of the fact-bearing entries (activity_tool.py,               *)
(* itinerary_synthesis_tool.py): what validation accepts.                   *)

\* Longest sources list of an entry in the artifacts modelled.
MaxSources == 2

\* What the url and the date of a source reference can be in an answer.
UrlValues == {"http_url", "not_a_url", "missing"}

DateValues == {"YYYY-MM-DD", "not_iso", "missing"}

SourceValues == [url : UrlValues, date : DateValues]

\* The models of the entries: Activity is the daily activities schema, the
\* other four are those of the final itinerary document.
EntrySchemas ==
    {"Activity", "ActivityItem", "TransportItem", "DiningItem", "LodgingOverview"}

\* activity_tool.SourceRef: url: HttpUrl, date: str, both required.
ActivitySourceRef(src) ==
    /\ src.url = "http_url"
    /\ src.date # "missing"

\* itinerary_synthesis_tool.SourceRef: url: str, date: str, both required.
SourceRef(src) ==
    /\ src.url # "missing"
    /\ src.date # "missing"

\* Whether an entry with these sources, its other fields being valid,
\* validates against the schema.
\*   Activity: sources: List[SourceRef] = Field(..., min_items=1)
\*   ActivityItem, TransportItem, DiningItem:
\*       sources: List[SourceRef] = Field(default_factory=list)
\*   LodgingOverview: no sources field; what is not a field is ignored
Validates(schema, sources) ==
    CASE schema = "Activity" ->
            /\ Len(sources) >= 1
            /\ \A i \in 1..Len(sources) : ActivitySourceRef(sources[i])
      [] schema \in {"ActivityItem", "TransportItem", "DiningItem"} ->
            \A i \in 1..Len(sources) : SourceRef(sources[i])
      [] schema = "LodgingOverview" -> TRUE

SchemaInit ==
    /\ call \in [ fn : {"none"},
                  schema : EntrySchemas,
                  sources : SeqsUpTo(SourceValues, MaxSources),
                  out : {"not_validated"} ]
    /\ registry = <<>>
    /\ outfiles = <<>>
    /\ runs = <<>>
    /\ PipeIdle
    /\ LogIdle
    /\ ApiIdle

\* The entry is validated as part of the artifact of its task.
ValidateEntry ==
    /\ call.fn = "none"
    /\ call' = [call EXCEPT !.fn = "validate",
                            !.out = IF Validates(call.schema, call.sources)
                                    THEN "accepted" ELSE "rejected"]
    /\ UNCHANGED <<registry, outfiles, runs, pipevars, logvars, apivars>>

SchemaNext == ValidateEntry

SchemaSpec == SchemaInit /\ [][SchemaNext]_vars

\* The source reference has a URL and a date in YYYY-MM-DD form.
DatedSource(src) == src.url # "missing" /\ src.date = "YYYY-MM-DD"

\* C24: an entry that validation accepted carries at least one source
\* reference with a URL and a YYYY-MM-DD date, and none with another date.
C24_AcceptedEntriesAreSourced ==
    (call.fn = "validate" /\ call.out = "accepted") =>
        /\ \E i \in 1..Len(call.sources) : DatedSource(call.sources[i])
        /\ \A i \in 1..Len(call.sources) : call.sources[i].date = "YYYY-MM-DD"

----------------------------------------------------------------------------
(* Further properties of the gates (crew.py).                               *)

\* Conditional task t was not skipped: it was admitted, and is run unless an
\* earlier failure halts the process.
Executes(t) == GateEvaluated(t) /\ status[t] # "SKIPPED"

\* C25: in a run in which the gates of transport and dining have both been
\* evaluated, transport executes exactly when dining does, and exactly when
\* "restaurants" is in services.
C25_TransportDiningSharedGate ==
    (GateEvaluated("transport_planner_task") /\ GateEvaluated("dining_recommender_task")) =>
        /\ Executes("transport_planner_task") <=> Executes("dining_recommender_task")
        /\ Executes("transport_planner_task") <=> ("restaurants" \in services)


\* C29: a predicate handed an output on which the agent/crew lookup does not
\* find the run inputs returns False whatever the services are, and so does
\* every gate; the conditional task whose gate was handed such an output is
\* skipped, never failed.
C29_GatesFailClosed ==
    /\ \A o \in OutputShapes \ { "linked" } :
          /\ \A f \in Predicates : ~Call(f, o)
          /\ \A t \in ConditionalTasks : ~ShouldExecute(t, o)
    /\ \A t \in ConditionalTasks :
          (GateEvaluated(t) /\ gate_input[t] # "linked") => status[t] = "SKIPPED"

C29_Witness ==
    /\ services = ServiceNames
    /\ gate_input["transport_planner_task"] = "no_agent"
    /\ gate_input["lodging_specialist_task"] = "no_crew"
    /\ gate_input["dining_recommender_task"] = "no_inputs"
    /\ \A t \in ConditionalTasks : status[t] = "SKIPPED"
    /\ driver = "returned"

----------------------------------------------------------------------------
(* Further properties of the HTTP service and of the results log.           *)

\* This step is a step of the background task of job j.
BackgroundStep(j) == jobs'[j] # jobs[j] /\ jobs[j].pc \in {"scheduled", "running"}

\* C27: an entry of the registry is never removed; its status goes from
\* "running" to "done" at most, and a "done" entry never changes; a step of
\* the background task of a job changes no entry but that job's.
C27_RegistryMonotonic ==
    [][ /\ \A j \in JobIds :
              /\ InRegistry(j) => results'[j] # NoEntry
              /\ results[j].status = "running" => results'[j].status \in {"running", "done"}
              /\ results[j].status = "done" => results'[j] = results[j]
        /\ \A j \in JobIds :
              BackgroundStep(j) => \A k \in JobIds \ {j} : results'[k] = results[k]
      ]_vars

C27_Witness ==
    /\ \A j \in JobIds : InRegistry(j)
    /\ \E j \in JobIds : jobs[j].pc = "raised"
    /\ \E j \in JobIds : jobs[j].pc = "scheduled"

\* The argument of the call w is in is a string that does not parse.
UnparseableArg(w) ==
    /\ writers[w].pc \in {"called", "read"}
    /\ writers[w].obj.py = "str"
    /\ ~JsonLoad(writers[w].obj.text).ok

\* C28: a call of write_root_cause with a string that does not parse as JSON
\* never changes the log file and ends by returning, not by raising.
C28_UnparseableStringNoEffect ==
    [][ \A w \in Writers :
           UnparseableArg(w) =>
               /\ file = writers[w].before
               /\ file' = file
               /\ writers'[w].pc \in {"called", "read", "returned_early"} ]_vars

C28_Witness ==
    \E w \in Writers :
        /\ writers[w].pc = "returned_early"
        /\ IsMalformedFile(writers[w].before)
        /\ file = writers[w].before

----------------------------------------------------------------------------
(* SourceRegistryTool (other_tools.py).                                     *)

\* Number of SourceRegistryTool instances.
NTools == 2

\* Number of calls of _run in the runs modelled.
MaxToolCalls == 4

\* Number of distinct source records.
NSources == 2

Tools == 1..NTools

\* Where a _registry list can live: on the class (0) or on an instance.
ClassCell == 0

Cells == { ClassCell } \cup Tools

\* source: None, {} or a record with content.
NoSource == [kind |-> "None", id |-> 0]

EmptySource == [kind |-> "empty", id |-> 0]

SourceRecords == { [kind |-> "dict", id |-> k] : k \in 1..NSources }

SourceArgs == { NoSource, EmptySource } \cup SourceRecords

\* bool(source)
SourceTruthy(source) == source.kind = "dict"

ActionArgs == { "add", "ADD", "list", "List", "clear", "remove" }

\* action.lower()
Lower(action) ==
    CASE action = "ADD" -> "add"
      [] action = "List" -> "list"
      [] OTHER -> action

\* A plausible slip: _registry created per instance in __init__.
RegistryCellPerInstance(tool) == tool

\* self._registry: _registry is assigned on the class only, and _run mutates
\* the list in place, so every instance reaches the list of the class.
RegistryCell(tool) == ClassCell

\* self._registry as instance tool sees it.
RegistryOf(tool) == registry[RegistryCell(tool)]

\* What _run returns and the list it leaves.
\*   ret: the returned value; list: self._registry after the call
SourceRegistryRun(reg, action, source) ==
    LET a == Lower(action) IN
    IF a = "add"
    THEN IF ~SourceTruthy(source)
         THEN [ret |-> [status |-> "error", count |-> 0, items |-> <<>>], list |-> reg]
         ELSE [ret |-> [status |-> "added", count |-> Len(Append(reg, source)), items |-> <<>>],
               list |-> Append(reg, source)]
    ELSE IF a = "list"
    THEN [ret |-> [status |-> "list", count |-> 0, items |-> reg], list |-> reg]
    ELSE IF a = "clear"
    THEN [ret |-> [status |-> "cleared", count |-> 0, items |-> <<>>], list |-> <<>>]
    ELSE [ret |-> [status |-> "error", count |-> 0, items |-> <<>>], list |-> reg]

NoToolCall ==
    [n |-> 0, tool |-> 0, action |-> "none", source |-> NoSource,
     ret |-> [status |-> "none", count |-> 0, items |-> <<>>]]

RegistryInit ==
    /\ registry = [c \in Cells |-> <<>>]
    /\ call = NoToolCall
    /\ outfiles = <<>>
    /\ runs = <<>>
    /\ PipeIdle
    /\ LogIdle
    /\ ApiIdle

\* tool._run(action, source)
ToolRun(tool, action, source) ==
    /\ call.n < MaxToolCalls
    /\ LET r == SourceRegistryRun(RegistryOf(tool), action, source) IN
       /\ registry' = [registry EXCEPT ![RegistryCell(tool)] = r.list]
       /\ call' = [n |-> call.n + 1, tool |-> tool, action |-> action,
                   source |-> source, ret |-> r.ret]
    /\ UNCHANGED <<outfiles, runs, pipevars, logvars, apivars>>

RegistryNext ==
    \E tool \in Tools, action \in ActionArgs, source \in SourceArgs :
        ToolRun(tool, action, source)

RegistrySpec == RegistryInit /\ [][RegistryNext]_vars

\* This step is a call of _run whose action, lowered, is a.
Ran(a) == call'.n = call.n + 1 /\ Lower(call'.action) = a

\* C30: all instances see one registry; "add" with a non-empty source appends
\* it at the end and returns the new length; "list" returns the registry in
\* order and changes nothing; "clear" empties it; "add" without a source and
\* an unknown action return an error and change nothing.
C30_SharedRegistry ==
    [][ \A k \in Tools :
          /\ RegistryOf(k) = RegistryOf(call'.tool)
          /\ (Ran("add") /\ SourceTruthy(call'.source)) =>
                /\ RegistryOf(k)' = Append(RegistryOf(k), call'.source)
                /\ call'.ret.status = "added"
                /\ call'.ret.count = Len(RegistryOf(k)')
          /\ Ran("list") =>
                /\ call'.ret.status = "list"
                /\ call'.ret.items = RegistryOf(k)
                /\ RegistryOf(k)' = RegistryOf(k)
          /\ Ran("clear") => RegistryOf(k)' = <<>>
          /\ ( \/ Ran("add") /\ ~SourceTruthy(call'.source)
               \/ call'.n = call.n + 1 /\ Lower(call'.action) \notin {"add", "list", "clear"} ) =>
                /\ call'.ret.status = "error"
                /\ RegistryOf(k)' = RegistryOf(k)
      ]_vars

C30_Witness ==
    /\ call.n = MaxToolCalls
    /\ call.action = "List"
    /\ call.tool = 2
    /\ call.ret.items = << [kind |-> "dict", id |-> 2], [kind |-> "dict", id |-> 1] >>
    /\ RegistryOf(1) = call.ret.items

====
